---- MODULE Spec2Model ----
(***************************************************************************)
(* Model of eden-tanstack-query: the key builder (keys/queryKey.ts), the   *)
(* option assemblers (options/*.ts) and the navigation proxy               *)
(* (proxy/createOptionsProxy.ts).                                          *)
(*                                                                         *)
(* JavaScript values are tagged records, so that values of different       *)
(* kinds can be compared: undefined, null, the skipToken symbol, strings,  *)
(* numbers, plain objects (a function from own keys to values) and arrays. *)
(***************************************************************************)
EXTENDS Integers, Sequences, FiniteSets, TLC

VARIABLES
    client,     \* the transport client given to createEdenOptionsProxy
    proxy,      \* the navigation proxy the caller holds
    procedure,  \* the procedure object the caller holds (or None)
    result,     \* the value last returned by a key helper / options factory
    page,       \* number of fetches the cache library has run on `result`
    calls,      \* what the last fetch/mutate callback did on the client
    fetchArgs,  \* what the assembler's queryFn handed to args.fetch
    outcome,    \* how the last fetch/mutate callback settled
    heap,       \* the arrays allocated so far (paths and pathParams arrays)
    handles     \* the proxies and procedures the caller has obtained and kept

vars == <<client, proxy, procedure, result, page, calls, fetchArgs, outcome,
          heap, handles>>

None == [t |-> "none"]

-----------------------------------------------------------------------------
(* JavaScript values *)

Undefined == [t |-> "undefined"]
Null      == [t |-> "null"]
skipToken == [t |-> "symbol"]
Str(s)    == [t |-> "string", v |-> s]
Num(n)    == [t |-> "number", v |-> n]
Obj(f)    == [t |-> "object", f |-> f]
Arr(e)    == [t |-> "array", e |-> e]

EmptyObj == Obj(<<>>)

\* { ...a, ...b } on own-key maps: keys of b win
Merge(a, b) ==
    [k \in (DOMAIN a) \cup (DOMAIN b) |-> IF k \in DOMAIN b THEN b[k] ELSE a[k]]

\* The own enumerable properties an object spread / Object.assign copies from
\* v: those of a plain object, the indices of an array, none of undefined,
\* null or a symbol.
OwnProps(v) ==
    CASE v.t = "object" -> v.f
      [] v.t = "array"  -> [k \in {ToString(i - 1) : i \in DOMAIN v.e} |->
                              v.e[CHOOSE i \in DOMAIN v.e : ToString(i - 1) = k]]
      [] OTHER          -> <<>>

-----------------------------------------------------------------------------
(* keys/queryKey.ts *)

isObject(value) == value.t = "object"

DANGEROUS_KEYS == {"__proto__", "constructor", "prototype"}

RECURSIVE sanitizeInput(_)
\* variant: arrays are returned as they are
sanitizeInputShallow(value) ==
    IF ~isObject(value)
    THEN value
    ELSE Obj([key \in (DOMAIN value.f) \ DANGEROUS_KEYS |->
                 sanitizeInput(value.f[key])])

\* variant: only one dangerous key of an object is removed
sanitizeInputFirstOnly(value) ==
    IF ~isObject(value)
    THEN IF value.t = "array"
         THEN Arr([i \in DOMAIN value.e |-> sanitizeInput(value.e[i])])
         ELSE value
    ELSE LET bad == (DOMAIN value.f) \cap DANGEROUS_KEYS
             drop == IF bad = {} THEN {} ELSE {CHOOSE k \in bad : TRUE}
         IN  Obj([key \in (DOMAIN value.f) \ drop |-> sanitizeInput(value.f[key])])

sanitizeInput(value) ==
    IF ~isObject(value)
    THEN IF value.t = "array"
         THEN Arr([i \in DOMAIN value.e |-> sanitizeInput(value.e[i])])
         ELSE value
    ELSE Obj([key \in (DOMAIN value.f) \ DANGEROUS_KEYS |->
                 sanitizeInput(value.f[key])])

\* opts.type left out
NoType == "undefined"

\* the meta object of a query key: `input` and `type` are set only when given
Meta(input, type) ==
    [k \in {f \in {"input", "type"} :
              \/ f = "input" /\ input # Undefined
              \/ f = "type" /\ type # NoType /\ type # "any"} |->
        IF k = "input" THEN input ELSE type]

\* variant: only cursor is stripped from an infinite input, direction stays
getQueryKeyNoDirection(path, optsInput, type) ==
    IF optsInput = skipToken THEN <<path>>
    ELSE IF optsInput = Undefined /\ (type = NoType \/ type = "any") THEN <<path>>
    ELSE LET input == sanitizeInput(optsInput) IN
         IF type = "infinite" /\ isObject(input) /\ "cursor" \in DOMAIN input.f
         THEN <<path, [input |-> Obj([k \in (DOMAIN input.f) \ {"cursor"} |-> input.f[k]]),
                       type |-> "infinite"]>>
         ELSE LET meta == Meta(input, type) IN
              IF DOMAIN meta # {} THEN <<path, meta>> ELSE <<path>>

\* variant: a null input is dropped like undefined
getQueryKeyNullDropped(path, optsInput, type) ==
    IF optsInput = skipToken THEN <<path>>
    ELSE IF optsInput = Undefined /\ (type = NoType \/ type = "any") THEN <<path>>
    ELSE LET input == sanitizeInput(optsInput) IN
         IF type = "infinite" /\ isObject(input)
            /\ ("cursor" \in DOMAIN input.f \/ "direction" \in DOMAIN input.f)
         THEN <<path, [input |-> Obj([k \in (DOMAIN input.f) \ {"cursor", "direction"} |->
                                         input.f[k]]),
                       type |-> "infinite"]>>
         ELSE LET meta == Meta(IF input = Null THEN Undefined ELSE input, type) IN
              IF DOMAIN meta # {} THEN <<path, meta>> ELSE <<path>>

\* variant: the wildcard tag "any" is kept in the meta like a concrete type
getQueryKeyAnyKept(path, optsInput, type) ==
    IF optsInput = skipToken THEN <<path>>
    ELSE IF optsInput = Undefined /\ type = NoType THEN <<path>>
    ELSE LET input == sanitizeInput(optsInput)
             meta == IF type = "any"
                     THEN Merge(Meta(input, type), [type |-> "any"])
                     ELSE Meta(IF type = "infinite" /\ isObject(input)
                               THEN Obj([k \in (DOMAIN input.f) \ {"cursor", "direction"} |->
                                            input.f[k]])
                               ELSE input, type)
         IN  IF DOMAIN meta # {} THEN <<path, meta>> ELSE <<path>>

getQueryKey(path, optsInput, type) ==
    IF optsInput = skipToken THEN <<path>>
    ELSE IF optsInput = Undefined /\ (type = NoType \/ type = "any") THEN <<path>>
    ELSE LET input == sanitizeInput(optsInput) IN
         IF type = "infinite" /\ isObject(input)
            /\ ("cursor" \in DOMAIN input.f \/ "direction" \in DOMAIN input.f)
         THEN <<path, [input |-> Obj([k \in (DOMAIN input.f) \ {"cursor", "direction"} |->
                                         input.f[k]]),
                       type |-> "infinite"]>>
         ELSE LET meta == Meta(input, type) IN
              IF DOMAIN meta # {} THEN <<path, meta>> ELSE <<path>>

\* variant: the mutation key carries a meta element
getMutationKeyWithInput(path) == <<path, [type |-> "mutation"]>>

getMutationKey(path) == <<path>>

-----------------------------------------------------------------------------
(* Inputs of the key builder *)

KeyPaths == {<<>>, <<"users", "get">>, <<"users", "posts", "get">>}

KeyTypes == {NoType, "any", "query", "infinite"}

Limit10 == Obj([limit |-> Num(10)])

KeyInputs ==
    { Undefined, Null, skipToken, Str("a"), Num(0), EmptyObj, Limit10,
      Arr(<<Str("1"), Str("2")>>),
      Obj([cursor |-> Str("x")]),
      Obj([direction |-> Str("forward")]),
      Obj([limit |-> Num(10), cursor |-> Str("x")]),
      Obj([limit |-> Num(10), cursor |-> Str("x"), direction |-> Str("forward")]),
      Obj([limit |-> Num(10), cursor |-> Undefined]),
      Obj([filter |-> Obj([cursor |-> Str("x"), status |-> Str("a")])]),
      Obj([__proto__ |-> Obj([polluted |-> Str("1")]), safe |-> Num(1)]),
      Obj([constructor |-> Str("c"), cursor |-> Str("x"), limit |-> Num(10)]),
      Arr(<<Obj([prototype |-> Str("p"), id |-> Str("1")])>>),
      Obj([a |-> Obj([constructor |-> Str("c"), b |-> Arr(<<Null, Num(1)>>)])]),
      Obj([__proto__ |-> Str("p"), constructor |-> Str("c"), ok |-> Num(1)]) }

-----------------------------------------------------------------------------
(* The key builder called directly *)

InitKeys ==
    /\ client = None
    /\ proxy = None
    /\ procedure = None
    /\ result = None
    /\ page = 0
    /\ calls = <<>>
    /\ fetchArgs = None
    /\ outcome = None
    /\ heap = <<>>
    /\ handles = <<>>

CallGetQueryKey ==
    \E path \in KeyPaths, input \in KeyInputs, type \in KeyTypes :
        /\ result' = [t |-> "result", op |-> "getQueryKey", path |-> path, input |-> input,
                      type |-> type, value |-> getQueryKey(path, input, type)]
        /\ UNCHANGED <<client, proxy, procedure, page, calls, fetchArgs, outcome,
                       heap, handles>>

CallGetMutationKey ==
    \E path \in KeyPaths :
        /\ result' = [t |-> "result", op |-> "getMutationKey", path |-> path,
                      value |-> getMutationKey(path)]
        /\ UNCHANGED <<client, proxy, procedure, page, calls, fetchArgs, outcome,
                       heap, handles>>

CallSanitizeInput ==
    \E input \in KeyInputs :
        /\ result' = [t |-> "result", op |-> "sanitizeInput", input |-> input,
                      value |-> sanitizeInput(input)]
        /\ UNCHANGED <<client, proxy, procedure, page, calls, fetchArgs, outcome,
                       heap, handles>>

NextKeys == CallGetQueryKey \/ CallGetMutationKey \/ CallSanitizeInput

SpecKeys == InitKeys /\ [][NextKeys]_vars

-----------------------------------------------------------------------------
(* The transport client *)

\* A client says, for each segment name, what reading that property of a
\* non-null node gives: a callable node ("function", as every node of a Treaty
\* client is), a plain object, null, or nothing ("undefined"); and which HTTP
\* methods its endpoints carry.  Calling a callable node gives an object.
SegNames == {"users", "posts"}

TreatyClient ==
    [kind |-> [s \in SegNames |-> "function"],
     methods |-> {"get", "options", "head", "post", "put", "patch", "delete"}]

MockClient ==
    [kind |-> [s \in SegNames |-> IF s = "users" THEN "function" ELSE "object"],
     methods |-> {"get", "post", "put", "delete"}]

LimitedClient ==
    [kind |-> [s \in SegNames |-> IF s = "users" THEN "null" ELSE "undefined"],
     methods |-> {"get"}]

Clients == {TreatyClient, MockClient, LimitedClient}

\* the value a transport method resolves to: { data, error }
TransportResults ==
    { [data |-> Str("data"), error |-> Null],
      [data |-> Null, error |-> Obj([status |-> Num(500)])] }

\* JavaScript truthiness of a value, for `if (result.error)`
Truthy(v) ==
    /\ v.t \notin {"undefined", "null"}
    /\ ~(v.t = "string" /\ v.v = "")
    /\ ~(v.t = "number" /\ v.v = 0)

AbortSignal == [t |-> "AbortSignal"]

Error(message) == [t |-> "Error", message |-> message]

TypeError == [t |-> "TypeError"]

-----------------------------------------------------------------------------
(* proxy/createOptionsProxy.ts: helpers *)

QUERY_METHODS == {"get", "options", "head"}

MUTATION_METHODS == {"post", "put", "patch", "delete"}

\* variant: delete counts as a query method
isQueryMethodWithDelete(prop) == prop \in QUERY_METHODS \cup {"delete"}

isQueryMethod(prop) == prop \in QUERY_METHODS

isMutationMethod(prop) == prop \in MUTATION_METHODS

getMethod(paths) == paths[Len(paths)]

\* One iteration of the loop of navigateToEdenPath and the ones after it.
\* st = [edenPath, paramIndex, trace]: trace lists the property reads and the
\* calls made on the client so far.
RECURSIVE navigateLoop(_, _, _, _, _)
navigateLoop(cl, pathSegments, pathParams, i, st) ==
    IF i > Len(pathSegments)
    THEN [threw |-> FALSE, value |-> st.edenPath, trace |-> st.trace,
          paramIndex |-> st.paramIndex]
    ELSE LET segment == pathSegments[i] IN
         IF st.edenPath \in {"null", "undefined"}
         THEN [threw |-> TRUE, trace |-> st.trace, paramIndex |-> st.paramIndex,
               error |-> Error("Invalid path: cannot access '" \o segment
                               \o "' on null/undefined")]
         ELSE LET nextPath == cl.kind[segment]
                  read == Append(st.trace, [op |-> "get", segment |-> segment])
              IN  IF nextPath = "undefined"
                  THEN [threw |-> TRUE, trace |-> read, paramIndex |-> st.paramIndex,
                        error |-> Error("Invalid path: segment '" \o segment
                                        \o "' does not exist on client")]
                  ELSE IF /\ st.paramIndex < Len(pathParams)
                          /\ nextPath = "function"
                          /\ ~isQueryMethod(segment)
                          /\ ~isMutationMethod(segment)
                       THEN navigateLoop(cl, pathSegments, pathParams, i + 1,
                              [edenPath |-> "object",
                               paramIndex |-> st.paramIndex + 1,
                               trace |-> Append(read,
                                   [op |-> "call", segment |-> segment,
                                    params |-> pathParams[st.paramIndex + 1]])])
                       ELSE navigateLoop(cl, pathSegments, pathParams, i + 1,
                              [edenPath |-> nextPath,
                               paramIndex |-> st.paramIndex,
                               trace |-> read])

\* variant: the walk starts below the first segment
navigateToEdenPathFromSecond(cl, pathSegments, pathParams) ==
    navigateLoop(cl, pathSegments, pathParams, 2,
                 [edenPath |-> "object", paramIndex |-> 0, trace |-> <<>>])

navigateToEdenPath(cl, pathSegments, pathParams) ==
    navigateLoop(cl, pathSegments, pathParams, 1,
                 [edenPath |-> "object", paramIndex |-> 0, trace |-> <<>>])

\* variant: a failed transport call is made once more
callEndpointRetry(proc, arg, res) ==
    LET pathWithoutMethod == SubSeq(proc.paths, 1, Len(proc.paths) - 1)
        method == getMethod(proc.paths)
        nav == navigateToEdenPath(proc.client, pathWithoutMethod, proc.pathParams)
        call == [op |-> "method", name |-> method, arg |-> arg, result |-> res]
    IN  IF nav.threw
        THEN [calls |-> nav.trace, outcome |-> [status |-> "rejected", error |-> nav.error]]
        ELSE IF nav.value = "null" \/ method \notin proc.client.methods
        THEN [calls |-> nav.trace, outcome |-> [status |-> "rejected", error |-> TypeError]]
        ELSE IF Truthy(res.error)
        THEN [calls |-> nav.trace \o <<call, call>>,
              outcome |-> [status |-> "rejected", error |-> res.error]]
        ELSE [calls |-> Append(nav.trace, call),
              outcome |-> [status |-> "resolved", data |-> res.data]]

\* variant: the transport's error is wrapped in a new Error
callEndpointWrapped(proc, arg, res) ==
    LET pathWithoutMethod == SubSeq(proc.paths, 1, Len(proc.paths) - 1)
        method == getMethod(proc.paths)
        nav == navigateToEdenPath(proc.client, pathWithoutMethod, proc.pathParams)
    IN  IF nav.threw
        THEN [calls |-> nav.trace, outcome |-> [status |-> "rejected", error |-> nav.error]]
        ELSE IF nav.value = "null" \/ method \notin proc.client.methods
        THEN [calls |-> nav.trace, outcome |-> [status |-> "rejected", error |-> TypeError]]
        ELSE [calls |-> Append(nav.trace, [op |-> "method", name |-> method, arg |-> arg,
                                           result |-> res]),
              outcome |-> IF Truthy(res.error)
                          THEN [status |-> "rejected", error |-> Error("Request failed")]
                          ELSE [status |-> "resolved", data |-> res.data]]

\* What the fetch/mutate callbacks share: walk to the endpoint, read the
\* method, call it with `arg`, and throw result.error or return result.data.
\* res is the value the transport call resolves to.
callEndpoint(proc, arg, res) ==
    LET pathWithoutMethod == SubSeq(proc.paths, 1, Len(proc.paths) - 1)
        method == getMethod(proc.paths)
        nav == navigateToEdenPath(proc.client, pathWithoutMethod, proc.pathParams)
    IN  IF nav.threw
        THEN [calls |-> nav.trace, outcome |-> [status |-> "rejected", error |-> nav.error]]
        ELSE IF nav.value = "null" \/ method \notin proc.client.methods
        THEN [calls |-> nav.trace, outcome |-> [status |-> "rejected", error |-> TypeError]]
        ELSE [calls |-> Append(nav.trace, [op |-> "method", name |-> method, arg |-> arg,
                                           result |-> res]),
              outcome |-> IF Truthy(res.error)
                          THEN [status |-> "rejected", error |-> res.error]
                          ELSE [status |-> "resolved", data |-> res.data]]

\* { ...Object.assign({}, ...pathParams), ...input } when there are path
\* params, else input
RECURSIVE assignAll(_)
assignAll(pathParams) ==
    IF pathParams = <<>> THEN <<>>
    ELSE Merge(assignAll(SubSeq(pathParams, 1, Len(pathParams) - 1)),
               OwnProps(pathParams[Len(pathParams)]))

mergedInput(pathParams, input) ==
    IF Len(pathParams) > 0
    THEN Obj(Merge(assignAll(pathParams), OwnProps(input)))
    ELSE input

\* variant: the segments are joined by "/"
RECURSIVE joinSlash(_)
joinSlash(path) ==
    IF path = <<>> THEN ""
    ELSE IF Len(path) = 1 THEN path[1]
    ELSE joinSlash(SubSeq(path, 1, Len(path) - 1)) \o "/" \o path[Len(path)]

RECURSIVE join(_)
join(path) ==
    IF path = <<>> THEN ""
    ELSE IF Len(path) = 1 THEN path[1]
    ELSE join(SubSeq(path, 1, Len(path) - 1)) \o "." \o path[Len(path)]

-----------------------------------------------------------------------------
(* options/*.ts: the option assemblers *)

\* variant: the signal is forwarded whatever the options say
abortOnUnmountAlways(opts) == TRUE

\* opts?.eden?.abortOnUnmount, on an options bag given as a map of its fields
abortOnUnmount(opts) ==
    /\ "eden" \in DOMAIN opts
    /\ "abortOnUnmount" \in DOMAIN opts.eden
    /\ opts.eden.abortOnUnmount

\* variant: the input reaches the key builder as it is, the skip sentinel too
edenInfiniteQueryOptionsRawKey(path, input, fetch, initialPageParam, opts) ==
    LET inputIsSkipToken == input = skipToken
        queryKey == getQueryKey(path, input, "infinite")
        queryFn == [t |-> "function", input |-> input, opts |-> opts, fetch |-> fetch]
    IN  Merge(opts,
              [queryKey |-> queryKey,
               queryFn |-> IF inputIsSkipToken THEN skipToken ELSE queryFn,
               initialPageParam |-> initialPageParam,
               eden |-> [path |-> join(path)]])

\* variant: the options are spread last, over the computed fields
edenInfiniteQueryOptionsOptsLast(path, input, fetch, initialPageParam, opts) ==
    LET inputIsSkipToken == input = skipToken
        queryKey == getQueryKey(path, IF inputIsSkipToken THEN Undefined ELSE input,
                                "infinite")
        queryFn == [t |-> "function", input |-> input, opts |-> opts, fetch |-> fetch]
    IN  Merge([queryKey |-> queryKey,
               queryFn |-> IF inputIsSkipToken THEN skipToken ELSE queryFn,
               initialPageParam |-> initialPageParam,
               eden |-> [path |-> join(path)]],
              opts)

\* A function value is the record of what its closure captured.
edenInfiniteQueryOptions(path, input, fetch, initialPageParam, opts) ==
    LET inputIsSkipToken == input = skipToken
        queryKey == getQueryKey(path, IF inputIsSkipToken THEN Undefined ELSE input,
                                "infinite")
        queryFn == [t |-> "function", input |-> input, opts |-> opts, fetch |-> fetch]
    IN  Merge(opts,
              [queryKey |-> queryKey,
               queryFn |-> IF inputIsSkipToken THEN skipToken ELSE queryFn,
               initialPageParam |-> initialPageParam,
               eden |-> [path |-> join(path)]])

\* options/queryOptions.ts, as its tests and the infinite-query assembler
\* show it.
edenQueryOptions(path, input, fetch, opts) ==
    LET inputIsSkipToken == input = skipToken
        queryKey == getQueryKey(path, IF inputIsSkipToken THEN Undefined ELSE input,
                                "query")
        queryFn == [t |-> "function", input |-> input, opts |-> opts, fetch |-> fetch]
    IN  Merge(opts,
              [queryKey |-> queryKey,
               queryFn |-> IF inputIsSkipToken THEN skipToken ELSE queryFn,
               eden |-> [path |-> join(path)]])

\* options/mutationOptions.ts, as its tests show it.
edenMutationOptions(path, mutate, opts) ==
    Merge(opts,
          [mutationKey |-> getMutationKey(path),
           mutationFn |-> [t |-> "function", mutate |-> mutate],
           eden |-> [path |-> join(path)]])

-----------------------------------------------------------------------------
(* proxy/createOptionsProxy.ts: the procedure objects *)

\* A procedure object is what its methods close over (client, paths,
\* pathParams).  calledAt is history, not program state: the number of
\* segments the proxy had when each path param was bound.
createQueryProcedure(opts) ==
    [t |-> "procedure", kind |-> "query", client |-> opts.client, paths |-> opts.paths,
     pathParams |-> opts.pathParams, calledAt |-> opts.calledAt,
     helpers |-> {"queryOptions", "queryKey", "queryFilter", "infiniteQueryOptions",
                  "infiniteQueryKey", "infiniteQueryFilter"}]

createMutationProcedure(opts) ==
    [t |-> "procedure", kind |-> "mutation", client |-> opts.client, paths |-> opts.paths,
     pathParams |-> opts.pathParams, calledAt |-> opts.calledAt,
     helpers |-> {"mutationOptions", "mutationKey"}]

\* the fetch callbacks: closures over the procedure and the caller's input
queryOptions(proc, input, queryOpts) ==
    edenQueryOptions(proc.paths, mergedInput(proc.pathParams, input),
                     [proc |-> proc, input |-> input], queryOpts)

queryKey(proc, input) ==
    getQueryKey(proc.paths, mergedInput(proc.pathParams, input), "query")

queryFilter(proc, input, filters) ==
    Merge(filters,
          [queryKey |-> getQueryKey(proc.paths, mergedInput(proc.pathParams, input),
                                    "any")])

\* variant: no default for initialCursor
infiniteQueryOptionsNoDefault(proc, input, infiniteOpts) ==
    LET initialCursor ==
            IF "initialCursor" \in DOMAIN infiniteOpts
            THEN infiniteOpts.initialCursor ELSE Undefined
        restOpts == [k \in (DOMAIN infiniteOpts) \ {"initialCursor"} |-> infiniteOpts[k]]
    IN  edenInfiniteQueryOptions(proc.paths, mergedInput(proc.pathParams, input),
                                 [proc |-> proc, input |-> input], initialCursor,
                                 restOpts)

\* const { initialCursor = null, ...restOpts } = infiniteOpts
infiniteQueryOptions(proc, input, infiniteOpts) ==
    LET initialCursor ==
            IF "initialCursor" \in DOMAIN infiniteOpts
               /\ infiniteOpts.initialCursor # Undefined
            THEN infiniteOpts.initialCursor ELSE Null
        restOpts == [k \in (DOMAIN infiniteOpts) \ {"initialCursor"} |-> infiniteOpts[k]]
    IN  edenInfiniteQueryOptions(proc.paths, mergedInput(proc.pathParams, input),
                                 [proc |-> proc, input |-> input], initialCursor,
                                 restOpts)

\* variant: the key is built from the input alone, without the path params
infiniteQueryKeyUnmerged(proc, input) ==
    getQueryKey(proc.paths, input, "infinite")

infiniteQueryKey(proc, input) ==
    getQueryKey(proc.paths, mergedInput(proc.pathParams, input), "infinite")

infiniteQueryFilter(proc, input, filters) ==
    Merge(filters,
          [queryKey |-> getQueryKey(proc.paths, mergedInput(proc.pathParams, input),
                                    "infinite")])

mutationOptions(proc, mutationOpts) ==
    edenMutationOptions(proc.paths, [proc |-> proc], mutationOpts)

mutationKey(proc) == getMutationKey(proc.paths)

\* property k of v, as a destructuring reads it
Prop(v, k) == IF v.t = "object" /\ k \in DOMAIN v.f THEN v.f[k] ELSE Undefined

\* variant: the fetch forwards the sanitized input
queryFetchSanitized(closure, inputForKey, signal, res) ==
    callEndpoint(closure.proc,
                 Obj([query |-> sanitizeInput(closure.input),
                      fetch |-> Obj([signal |-> signal])]),
                 res)

\* variant: the input's query and headers members are handed to the method
queryFetchUnpacked(closure, inputForKey, signal, res) ==
    callEndpoint(closure.proc,
                 Obj([query |-> Prop(closure.input, "query"),
                      headers |-> Prop(closure.input, "headers"),
                      fetch |-> Obj([signal |-> signal])]),
                 res)

\* the `fetch` passed by queryOptions
queryFetch(closure, inputForKey, signal, res) ==
    callEndpoint(closure.proc,
                 Obj([query |-> closure.input, fetch |-> Obj([signal |-> signal])]),
                 res)

\* the `fetch` passed by infiniteQueryOptions
infiniteFetch(closure, inputWithCursor, signal, res) ==
    LET cursor == Prop(inputWithCursor, "cursor")
        direction == Prop(inputWithCursor, "direction")
        fullInput ==
            IF cursor # Undefined \/ direction # Undefined
            THEN Obj(Merge(OwnProps(closure.input),
                           [cursor |-> cursor, direction |-> direction]))
            ELSE closure.input
    IN  callEndpoint(closure.proc,
                     Obj([query |-> fullInput, fetch |-> Obj([signal |-> signal])]),
                     res)

\* the `mutate` passed by mutationOptions
mutate(closure, input, res) == callEndpoint(closure.proc, input, res)

\* The queryFn built by edenInfiniteQueryOptions, run with the cache
\* library's context: what it hands to args.fetch, and how that settles.
\* variant: the page param is not merged into the input
infiniteQueryFnNoCursor(fn, context, res) ==
    LET fullInput == Obj(OwnProps(fn.input))
        signal == IF abortOnUnmount(fn.opts) THEN context.signal ELSE Undefined
    IN  [args |-> [input |-> fullInput, signal |-> signal],
         settled |-> infiniteFetch(fn.fetch, fullInput, signal, res)]

infiniteQueryFn(fn, context, res) ==
    LET fullInput == Obj(Merge(OwnProps(fn.input), [cursor |-> context.pageParam]))
        signal == IF abortOnUnmount(fn.opts) THEN context.signal ELSE Undefined
    IN  [args |-> [input |-> fullInput, signal |-> signal],
         settled |-> infiniteFetch(fn.fetch, fullInput, signal, res)]

\* The queryFn built by edenQueryOptions (options/queryOptions.ts).
queryFn(fn, context, res) ==
    LET signal == IF abortOnUnmount(fn.opts) THEN context.signal ELSE Undefined
    IN  [args |-> [input |-> fn.input, signal |-> signal],
         settled |-> queryFetch(fn.fetch, fn.input, signal, res)]

\* The mutationFn built by edenMutationOptions (options/mutationOptions.ts).
mutationFn(fn, variables, res) ==
    [args |-> [input |-> variables], settled |-> mutate(fn.mutate, variables, res)]

-----------------------------------------------------------------------------
(* proxy/createOptionsProxy.ts: the navigation proxy and its callers *)

MaxSegs == 2
MaxParams == 2
MaxPages == 2

PathParamValues ==
    { Obj([id |-> Str("1")]), Obj([id |-> Str("2")]), Obj([direction |-> Str("asc")]) }

\* the input of the README's "Query with Input"
RouteOptions ==
    Obj([query |-> Obj([role |-> Str("admin")]),
         headers |-> Obj([xcustom |-> Str("value")])])

ProxyInputs ==
    { Undefined, skipToken, Limit10,
      Obj([limit |-> Num(10), cursor |-> Str("x"), direction |-> Str("forward")]),
      Obj([__proto__ |-> Obj([polluted |-> Str("1")]), safe |-> Num(1)]),
      RouteOptions }

Callback(name) == [t |-> "function", name |-> name]

\* the caller's own values for fields the assemblers compute
Mine == << <<"mine">> >>

QueryOpts ==
    { <<>>,
      [staleTime |-> Num(5000), retry |-> Num(3),
       queryKey |-> Mine, queryFn |-> Callback("mine"),
       eden |-> [abortOnUnmount |-> TRUE, path |-> "mine"]] }

InfiniteOpts ==
    { [getNextPageParam |-> Callback("getNextPageParam")],
      [getNextPageParam |-> Callback("getNextPageParam"),
       getPreviousPageParam |-> Callback("getPreviousPageParam"),
       staleTime |-> Num(5000),
       initialCursor |-> Undefined,
       initialPageParam |-> Str("p0"),
       queryKey |-> Mine, queryFn |-> Callback("mine"),
       eden |-> [abortOnUnmount |-> FALSE, path |-> "mine"]],
      [getNextPageParam |-> Callback("getNextPageParam"),
       initialCursor |-> Str("c0"),
       eden |-> [abortOnUnmount |-> TRUE]] }

MutationOpts ==
    { <<>>,
      [onSuccess |-> Callback("onSuccess"), retry |-> Num(3),
       mutationKey |-> Mine, mutationFn |-> Callback("mine"),
       eden |-> [path |-> "mine"]] }

Filters == { <<>>, [stale |-> TRUE] }

MutationVariables == { Undefined, Obj([name |-> Str("Jane")]) }

NextPageParams == { Str("c1") }

\* the HTTP-method names the caller reads off a proxy
TriedMethods == { "get", "options", "head", "post", "put", "patch", "delete" }

Directions == { "forward", "backward" }

\* createEdenOptionsProxy(opts, paths, pathParams): the proxy is the
\* arguments its handlers close over
createEdenOptionsProxy(paths, pathParams, calledAt) ==
    [paths |-> paths, pathParams |-> pathParams, calledAt |-> calledAt]

Forget ==
    /\ result' = None
    /\ page' = 0
    /\ calls' = <<>>
    /\ fetchArgs' = None
    /\ outcome' = None
    /\ UNCHANGED <<heap, handles>>

Init ==
    /\ client \in Clients
    /\ proxy = createEdenOptionsProxy(<<>>, <<>>, <<>>)
    /\ procedure = None
    /\ result = None
    /\ page = 0
    /\ calls = <<>>
    /\ fetchArgs = None
    /\ outcome = None
    /\ heap = <<>>
    /\ handles = <<>>

\* get trap, a name that is no HTTP method
GetSegment ==
    \E prop \in SegNames :
        /\ procedure = None
        /\ Len(proxy.paths) < MaxSegs
        /\ ~isQueryMethod(prop) /\ ~isMutationMethod(prop)
        /\ proxy' = createEdenOptionsProxy(Append(proxy.paths, prop),
                                           proxy.pathParams, proxy.calledAt)
        /\ procedure' = None
        /\ Forget
        /\ UNCHANGED client

\* get trap, a query method
GetQueryMethod ==
    \E prop \in TriedMethods :
        /\ procedure = None
        /\ isQueryMethod(prop)
        /\ procedure' = createQueryProcedure(
               [client |-> client, paths |-> Append(proxy.paths, prop),
                pathParams |-> proxy.pathParams, calledAt |-> proxy.calledAt])
        /\ Forget
        /\ UNCHANGED <<client, proxy>>

\* get trap, a mutation method
GetMutationMethod ==
    \E prop \in TriedMethods :
        /\ procedure = None
        /\ ~isQueryMethod(prop) /\ isMutationMethod(prop)
        /\ procedure' = createMutationProcedure(
               [client |-> client, paths |-> Append(proxy.paths, prop),
                pathParams |-> proxy.pathParams, calledAt |-> proxy.calledAt])
        /\ Forget
        /\ UNCHANGED <<client, proxy>>

\* apply trap; the caller binds path params the way a route takes them,
\* one right after a segment
Apply ==
    \E params \in PathParamValues :
        /\ procedure = None
        /\ Len(proxy.pathParams) < MaxParams
        /\ Len(proxy.paths) >= 1
        /\ \A j \in DOMAIN proxy.calledAt : proxy.calledAt[j] < Len(proxy.paths)
        /\ proxy' = createEdenOptionsProxy(proxy.paths,
                                           Append(proxy.pathParams, params),
                                           Append(proxy.calledAt, Len(proxy.paths)))
        /\ procedure' = None
        /\ Forget
        /\ UNCHANGED client

\* variant: the route is walked on the client when the value is built
ReturnedEager(op, input, opts, value) ==
    /\ result = None
    /\ result' = [t |-> "result", op |-> op, input |-> input, opts |-> opts,
                  value |-> value]
    /\ calls' = IF procedure = None THEN calls
                ELSE navigateToEdenPath(client,
                         SubSeq(procedure.paths, 1, Len(procedure.paths) - 1),
                         procedure.pathParams).trace
    /\ UNCHANGED <<client, proxy, procedure, page, fetchArgs, outcome, heap, handles>>

\* A helper or a trap hands a value to the caller; the client is not
\* touched and nothing is run.
Returned(op, input, opts, value) ==
    /\ result = None
    /\ result' = [t |-> "result", op |-> op, input |-> input, opts |-> opts,
                  value |-> value]
    /\ UNCHANGED <<client, proxy, procedure, page, calls, fetchArgs, outcome,
                   heap, handles>>

\* get trap, the name "then" (or a symbol): undefined, so that awaiting a
\* proxy does not unwrap it
GetThen ==
    /\ procedure = None
    /\ Returned("then", Undefined, <<>>, Undefined)

CallQueryOptions ==
    /\ procedure # None /\ "queryOptions" \in procedure.helpers
    /\ \E input \in ProxyInputs, queryOpts \in QueryOpts :
           Returned("queryOptions", input, queryOpts,
                    queryOptions(procedure, input, queryOpts))

CallQueryKey ==
    /\ procedure # None /\ "queryKey" \in procedure.helpers
    /\ \E input \in ProxyInputs :
           Returned("queryKey", input, <<>>, queryKey(procedure, input))

CallQueryFilter ==
    /\ procedure # None /\ "queryFilter" \in procedure.helpers
    /\ \E input \in ProxyInputs, filters \in Filters :
           Returned("queryFilter", input, filters,
                    queryFilter(procedure, input, filters))

CallInfiniteQueryOptions ==
    /\ procedure # None /\ "infiniteQueryOptions" \in procedure.helpers
    /\ \E input \in ProxyInputs, infiniteOpts \in InfiniteOpts :
           Returned("infiniteQueryOptions", input, infiniteOpts,
                    infiniteQueryOptions(procedure, input, infiniteOpts))

CallInfiniteQueryKey ==
    /\ procedure # None /\ "infiniteQueryKey" \in procedure.helpers
    /\ \E input \in ProxyInputs :
           Returned("infiniteQueryKey", input, <<>>, infiniteQueryKey(procedure, input))

CallInfiniteQueryFilter ==
    /\ procedure # None /\ "infiniteQueryFilter" \in procedure.helpers
    /\ \E input \in ProxyInputs, filters \in Filters :
           Returned("infiniteQueryFilter", input, filters,
                    infiniteQueryFilter(procedure, input, filters))

CallMutationOptions ==
    /\ procedure # None /\ "mutationOptions" \in procedure.helpers
    /\ \E mutationOpts \in MutationOpts :
           Returned("mutationOptions", Undefined, mutationOpts,
                    mutationOptions(procedure, mutationOpts))

CallMutationKey ==
    /\ procedure # None /\ "mutationKey" \in procedure.helpers
    /\ Returned("mutationKey", Undefined, <<>>, mutationKey(procedure))

Settled(context, ran) ==
    /\ fetchArgs' = [context |-> context, input |-> ran.args.input,
                     signal |-> IF "signal" \in DOMAIN ran.args
                                THEN ran.args.signal ELSE Undefined]
    /\ calls' = ran.settled.calls
    /\ outcome' = ran.settled.outcome
    /\ UNCHANGED <<client, proxy, procedure, result, heap, handles>>

\* the cache library runs the queryFn of a query descriptor
FetchQuery ==
    /\ result # None /\ result.op = "queryOptions"
    /\ result.value.queryFn # skipToken
    /\ \E res \in TransportResults :
           LET context == [signal |-> AbortSignal] IN
           /\ Settled(context, queryFn(result.value.queryFn, context, res))
           /\ page' = page

\* the cache library fetches a page of an infinite-query descriptor: the
\* first with initialPageParam, the next ones with what the caller's
\* getNextPageParam / getPreviousPageParam gave
FetchPage ==
    /\ result # None /\ result.op = "infiniteQueryOptions"
    /\ result.value.queryFn # skipToken
    /\ page < MaxPages
    /\ \E res \in TransportResults, direction \in Directions,
          pageParam \in NextPageParams \cup {result.value.initialPageParam} :
           LET context == [pageParam |-> pageParam, signal |-> AbortSignal,
                           direction |-> direction] IN
           /\ page = 0 => pageParam = result.value.initialPageParam
                          /\ direction = "forward"
           /\ page > 0 => pageParam \in NextPageParams
           /\ Settled(context, infiniteQueryFn(result.value.queryFn, context, res))
           /\ page' = page + 1

\* the cache library runs the mutationFn of a mutation descriptor
Mutate ==
    /\ result # None /\ result.op = "mutationOptions"
    /\ \E variables \in MutationVariables, res \in TransportResults :
           /\ Settled([variables |-> variables],
                      mutationFn(result.value.mutationFn, variables, res))
           /\ page' = page

Next ==
    \/ GetSegment
    \/ GetQueryMethod
    \/ GetMutationMethod
    \/ GetThen
    \/ Apply
    \/ CallQueryOptions
    \/ CallQueryKey
    \/ CallQueryFilter
    \/ CallInfiniteQueryOptions
    \/ CallInfiniteQueryKey
    \/ CallInfiniteQueryFilter
    \/ CallMutationOptions
    \/ CallMutationKey
    \/ FetchQuery
    \/ FetchPage
    \/ Mutate

Spec == Init /\ [][Next]_vars

-----------------------------------------------------------------------------
(* The proxy's objects kept by the caller: arrays are cells of a heap, an  *)
(* object holds the indices of its paths array and its pathParams array.   *)

MaxObjects == 4

\* the names the caller reads off kept proxies (any but "then") and the path
\* params it calls them with
NavNames == {"users", "get", "post"}

NavParams == {Obj([id |-> Str("1")]), Obj([id |-> Str("2")])}

\* variant: the get trap pushes the name on the receiver's own paths array
\* and hands both arrays on
getPush(h, target, prop) ==
    [heap |-> [h EXCEPT ![target.paths] = Append(@, prop)],
     object |-> [kind |-> IF isQueryMethod(prop) THEN "query"
                          ELSE IF isMutationMethod(prop) THEN "mutation"
                          ELSE "proxy",
                 paths |-> target.paths, pathParams |-> target.pathParams]]

\* get trap: [...paths, prop] and [...pathParams] are new arrays
get(h, target, prop) ==
    [heap |-> h \o << Append(h[target.paths], prop), h[target.pathParams] >>,
     object |-> [kind |-> IF isQueryMethod(prop) THEN "query"
                          ELSE IF isMutationMethod(prop) THEN "mutation"
                          ELSE "proxy",
                 paths |-> Len(h) + 1, pathParams |-> Len(h) + 2]]

\* apply trap: [...paths] and [...pathParams, params] are new arrays
apply(h, target, params) ==
    [heap |-> h \o << h[target.paths], Append(h[target.pathParams], params) >>,
     object |-> [kind |-> "proxy", paths |-> Len(h) + 1, pathParams |-> Len(h) + 2]]

\* what the helpers of a procedure object read: its arrays as they are now
ProcedureOf(h, object) ==
    [t |-> "procedure", kind |-> object.kind, client |-> client,
     paths |-> h[object.paths], pathParams |-> h[object.pathParams],
     calledAt |-> <<>>]

\* An object the caller keeps, with where it came from and the segments and
\* path params it had when it was obtained.
Kept(h, object, from, step) ==
    [object |-> object, from |-> from, step |-> step,
     made |-> [paths |-> h[object.paths], pathParams |-> h[object.pathParams]]]

InitNav ==
    /\ client \in Clients
    /\ proxy = None
    /\ procedure = None
    /\ result = None
    /\ page = 0
    /\ calls = <<>>
    /\ fetchArgs = None
    /\ outcome = None
    /\ heap = << <<>>, <<>> >>
    /\ handles = << Kept(heap, [kind |-> "proxy", paths |-> 1, pathParams |-> 2],
                         0, None) >>

NavGet ==
    \E r \in DOMAIN handles, prop \in NavNames :
        /\ handles[r].object.kind = "proxy"
        /\ Len(handles) < MaxObjects
        /\ LET got == get(heap, handles[r].object, prop) IN
           /\ heap' = got.heap
           /\ handles' = Append(handles,
                                Kept(got.heap, got.object, r,
                                     [op |-> "get", arg |-> prop]))
        /\ UNCHANGED <<client, proxy, procedure, result, page, calls, fetchArgs, outcome>>

NavApply ==
    \E r \in DOMAIN handles, params \in NavParams :
        /\ handles[r].object.kind = "proxy"
        /\ Len(handles) < MaxObjects
        /\ LET got == apply(heap, handles[r].object, params) IN
           /\ heap' = got.heap
           /\ handles' = Append(handles,
                                Kept(got.heap, got.object, r,
                                     [op |-> "apply", arg |-> params]))
        /\ UNCHANGED <<client, proxy, procedure, result, page, calls, fetchArgs, outcome>>

\* queryKey() of a kept query procedure
NavQueryKey ==
    \E r \in DOMAIN handles :
        /\ handles[r].object.kind = "query"
        /\ result' = [t |-> "result", op |-> "queryKey", of |-> r,
                      value |-> queryKey(ProcedureOf(heap, handles[r].object), Undefined)]
        /\ calls' = <<>>
        /\ outcome' = None
        /\ UNCHANGED <<client, proxy, procedure, page, fetchArgs, heap, handles>>

\* the fetch/mutate callback of a kept procedure runs
NavFetch ==
    \E r \in DOMAIN handles, res \in TransportResults :
        /\ handles[r].object.kind \in {"query", "mutation"}
        /\ LET ran == callEndpoint(ProcedureOf(heap, handles[r].object), Undefined, res) IN
           /\ calls' = ran.calls
           /\ outcome' = ran.outcome
        /\ result' = [t |-> "result", op |-> "fetch", of |-> r, res |-> res]
        /\ UNCHANGED <<client, proxy, procedure, page, fetchArgs, heap, handles>>

NextNav == NavGet \/ NavApply \/ NavQueryKey \/ NavFetch

SpecNav == InitNav /\ [][NextNav]_vars

-----------------------------------------------------------------------------
(* What the claims speak of *)

\* the query key a returned value carries
HasQueryKey ==
    /\ result # None
    /\ result.op \in {"queryKey", "infiniteQueryKey", "queryFilter",
                      "infiniteQueryFilter", "queryOptions", "infiniteQueryOptions"}

KeyOf(r) ==
    IF r.op \in {"queryKey", "infiniteQueryKey"} THEN r.value ELSE r.value.queryKey

\* every path param was bound right after a segment, no two after the same one
Routed(proc) ==
    /\ \A j \in DOMAIN proc.calledAt : proc.calledAt[j] >= 1
    /\ \A j, k \in DOMAIN proc.calledAt : j < k => proc.calledAt[j] < proc.calledAt[k]

\* the callback reached the transport method
ReachedMethod == calls # <<>> /\ calls[Len(calls)].op = "method"

\* The reads and calls that walk proc's route on the client with every path
\* param applied where it was bound: segment i is read, then called once for
\* each param bound after i segments, in binding order.
RECURSIVE ExpectedWalk(_, _)
ExpectedWalk(proc, i) ==
    IF i >= Len(proc.paths) THEN <<>>
    ELSE LET bound == SelectSeq([j \in DOMAIN proc.calledAt |-> j],
                                LAMBDA j : proc.calledAt[j] = i)
         IN  <<[op |-> "get", segment |-> proc.paths[i]]>>
             \o [k \in DOMAIN bound |->
                    [op |-> "call", segment |-> proc.paths[i],
                     params |-> proc.pathParams[bound[k]]]]
             \o ExpectedWalk(proc, i + 1)

\* C1: whenever a fetch/mutate callback reaches the transport method on a
\* client whose bound segments are callable, the reads and calls it made on
\* the client are the route's segments in order with each path param applied
\* at the segment after which the proxy was called.
C1_PositionalCorrelation ==
    ( /\ ReachedMethod
      /\ Routed(procedure)
      /\ \A j \in DOMAIN procedure.calledAt :
            client.kind[procedure.paths[procedure.calledAt[j]]] = "function" )
    => SubSeq(calls, 1, Len(calls) - 1) = ExpectedWalk(procedure, 1)

\* C2: queryOptions(skipToken) and infiniteQueryOptions(skipToken, opts)
\* return a descriptor whose queryFn is the skip sentinel, with or without
\* path params, so nothing is ever run on the client for it.
C2_SkipTokenKeepsSentinel ==
    ( /\ result # None
      /\ result.op \in {"queryOptions", "infiniteQueryOptions"}
      /\ result.input = skipToken
      /\ Routed(procedure) )
    => result.value.queryFn = skipToken /\ outcome = None

\* the assembler was handed the skip sentinel: queryOptions and
\* infiniteQueryOptions pass the caller's input on as it is on a route
\* without path params
AssembledWithSkipToken ==
    /\ result # None
    /\ result.op \in {"queryOptions", "infiniteQueryOptions"}
    /\ result.input = skipToken
    /\ procedure.pathParams = <<>>

\* C3 as stated: an assembler given the skip sentinel returns the path-only
\* key [path] and the skip sentinel as queryFn.
C3_SkipKeyPathOnly ==
    AssembledWithSkipToken
    => /\ result.value.queryKey = <<procedure.paths>>
       /\ result.value.queryFn = skipToken

\* C3 as amended: an assembler given the skip sentinel returns the key
\* [path, {type}] (type "query" or "infinite", and no input) and the skip
\* sentinel as queryFn.
C3_SkipKeyTypeOnly ==
    AssembledWithSkipToken
    => /\ result.value.queryKey =
              <<procedure.paths,
                [type |-> IF result.op = "queryOptions" THEN "query" ELSE "infinite"]>>
       /\ result.value.queryFn = skipToken

C3_Witness ==
    /\ AssembledWithSkipToken
    /\ result.op = "infiniteQueryOptions"
    /\ Len(procedure.paths) = 3

\* C4: getQueryKey(path, input, type) follows the reference rule: its first
\* element is the path; it is [path] for the skip sentinel, and for no input
\* with no type or type "any"; otherwise it is [path, meta] with meta.input
\* present iff the sanitized input is not undefined (null is embedded) and
\* meta.type present iff type is "query" or "infinite"; [] gives [[]].
C4_ReferenceRule ==
    (result # None /\ result.op = "getQueryKey") =>
        LET k == result.value
            i == result.input
            ty == result.type
            pathOnly == i = skipToken \/ (i = Undefined /\ ty \in {NoType, "any"})
        IN  /\ k[1] = result.path
            /\ pathOnly => k = <<result.path>>
            /\ ~pathOnly =>
                  /\ Len(k) = 2
                  /\ "input" \in DOMAIN k[2] <=> sanitizeInput(i) # Undefined
                  /\ "type" \in DOMAIN k[2] <=> ty \in {"query", "infinite"}
                  /\ "type" \in DOMAIN k[2] => k[2].type = ty
                  /\ i = Null => k[2].input = Null
            /\ (result.path = <<>> /\ pathOnly) => k = << <<>> >>

C4_Witness ==
    /\ result # None /\ result.op = "getQueryKey"
    /\ result.input = Null /\ result.type = NoType
    /\ result.value = <<result.path, [input |-> Null]>>

\* C5: with no input, queryKey(), queryFilter(), infiniteQueryKey() and
\* infiniteQueryFilter() on a route with path params differ from those of the
\* same segments without path params, and from those of the same segments
\* with path params of other values.
C5_BindingsDifferentiateKeys ==
    ( /\ HasQueryKey
      /\ result.op \in {"queryKey", "queryFilter", "infiniteQueryKey",
                        "infiniteQueryFilter"}
      /\ result.input = Undefined
      /\ procedure.pathParams # <<>>
      /\ Routed(procedure) )
    => LET keyWith(pathParams) ==
               LET other == [procedure EXCEPT !.pathParams = pathParams] IN
               CASE result.op = "queryKey" -> queryKey(other, Undefined)
                 [] result.op = "queryFilter" ->
                        queryFilter(other, Undefined, result.opts).queryKey
                 [] result.op = "infiniteQueryKey" -> infiniteQueryKey(other, Undefined)
                 [] OTHER ->
                        infiniteQueryFilter(other, Undefined, result.opts).queryKey
       IN  /\ KeyOf(result) # keyWith(<<>>)
           /\ \A pathParams \in [DOMAIN procedure.pathParams -> PathParamValues] :
                  pathParams # procedure.pathParams
                  => KeyOf(result) # keyWith(pathParams)


\* the key builder on its own: [path] is a prefix of every key it returns
KeyBuilderKeepsPath ==
    \A path \in KeyPaths, input \in KeyInputs, type \in KeyTypes :
        LET k == getQueryKey(path, input, type) IN
        /\ Len(k) \in {1, 2}
        /\ k[1] = path

\* C6: [p] is a prefix of every key produced for a path p, by getQueryKey
\* and by queryKey, queryFilter, queryOptions, infiniteQueryKey,
\* infiniteQueryFilter and infiniteQueryOptions, whatever the input and the
\* path params; and queryFilter() with no input on a route without path
\* params is exactly [p].
C6_PathIsPrefix ==
    /\ KeyBuilderKeepsPath
    /\ HasQueryKey =>
          /\ Len(KeyOf(result)) >= 1
          /\ SubSeq(KeyOf(result), 1, 1) = <<procedure.paths>>
          /\ ( /\ result.op = "queryFilter"
               /\ result.input = Undefined
               /\ procedure.pathParams = <<>> )
             => KeyOf(result) = <<procedure.paths>>

C6_Witness ==
    /\ HasQueryKey
    /\ result.op = "queryFilter"
    /\ result.input = Undefined
    /\ procedure.pathParams = <<>>
    /\ procedure.paths = <<"users", "posts", "get">>
    /\ result.value.queryKey = << <<"users", "posts", "get">> >>

\* input without its top-level cursor and direction keys
WithoutCursor(input) ==
    Obj([k \in (DOMAIN input.f) \ {"cursor", "direction"} |-> input.f[k]])

\* C7: for type "infinite" and a plain-object input, the key is the key of
\* the input without its top-level cursor and direction keys;
\* {limit: 10, cursor: "x", direction: "forward"} and {limit: 10} give the
\* same key.
C7_CursorStripping ==
    ( /\ result # None /\ result.op = "getQueryKey"
      /\ result.type = "infinite"
      /\ isObject(result.input) )
    => /\ result.value = getQueryKey(result.path, WithoutCursor(result.input), "infinite")
       /\ WithoutCursor(result.input) = Limit10
          => result.value = <<result.path, [input |-> Limit10, type |-> "infinite"]>>

C7_Witness ==
    /\ result # None /\ result.op = "getQueryKey"
    /\ result.type = "infinite"
    /\ result.input = Obj([limit |-> Num(10), cursor |-> Str("x"),
                           direction |-> Str("forward")])
    /\ result.value = <<result.path, [input |-> Limit10, type |-> "infinite"]>>

\* a page of an infinite-query descriptor has been fetched
PageFetched ==
    /\ result # None /\ result.op = "infiniteQueryOptions"
    /\ page >= 1

\* what every page fetch hands to the underlying fetch: the input I the
\* descriptor was built with, merged with cursor = the page param, the first
\* page param being the initial one
PagesCarryCursor ==
    LET I == result.value.queryFn.input IN
    /\ fetchArgs.input = Obj(Merge(OwnProps(I), [cursor |-> fetchArgs.context.pageParam]))
    /\ page = 1 => fetchArgs.context.pageParam = result.value.initialPageParam

\* C8 as stated: every page fetch receives I merged with cursor = the page
\* param, and the queryKey is [path, {input: I, type: "infinite"}] on every
\* page.
C8_PagingKeyIsInput ==
    PageFetched
    => /\ PagesCarryCursor
       /\ result.value.queryKey =
              <<procedure.paths, Meta(result.value.queryFn.input, "infinite")>>

\* C8 as amended: every page fetch receives I merged with cursor = the page
\* param, and the queryKey is, on every page, [path, {input: I', type:
\* "infinite"}] with I' the sanitized I without its top-level cursor and
\* direction keys.
C8_PagingKeyIsStrippedInput ==
    PageFetched
    => /\ PagesCarryCursor
       /\ LET I == sanitizeInput(result.value.queryFn.input) IN
          result.value.queryKey =
              <<procedure.paths,
                Meta(IF isObject(I) THEN WithoutCursor(I) ELSE I, "infinite")>>

C8_Witness ==
    /\ PageFetched
    /\ page = 2
    /\ result.value.queryFn.input = Limit10
    /\ fetchArgs.input = Obj([limit |-> Num(10), cursor |-> Str("c1")])
    /\ result.value.queryKey =
           <<procedure.paths, [input |-> Limit10, type |-> "infinite"]>>

\* C9: on a page fetch the input handed to the underlying fetch callback
\* carries the direction the cache library supplied, in a direction field,
\* together with the page param in the cursor field; and so does the query
\* of the transport call.
C9_DirectionForwarded ==
    PageFetched
    => /\ Prop(fetchArgs.input, "cursor") = fetchArgs.context.pageParam
       /\ Prop(fetchArgs.input, "direction") = Str(fetchArgs.context.direction)
       /\ ReachedMethod
          => Prop(Prop(calls[Len(calls)].arg, "query"), "direction")
                 = Str(fetchArgs.context.direction)

\* the key builder on its own: a mutation key is [path]
MutationKeyIsPath == \A path \in KeyPaths : getMutationKey(path) = <<path>>

\* C10: getMutationKey(path), mutationKey() and mutationOptions().mutationKey
\* are [path], whatever path params the route has and whatever variables the
\* mutate function is later run with.
C10_MutationKeyIsPath ==
    /\ MutationKeyIsPath
    /\ (result # None /\ result.op = "mutationKey")
       => result.value = <<procedure.paths>>
    /\ (result # None /\ result.op = "mutationOptions")
       => result.value.mutationKey = <<procedure.paths>>

C10_Witness ==
    /\ result # None /\ result.op = "mutationOptions"
    /\ procedure.pathParams # <<>>
    /\ outcome # None
    /\ fetchArgs.input = Obj([name |-> Str("Jane")])
    /\ result.value.mutationKey = <<procedure.paths>>

\* C11: whenever the transport method was called by a query, infinite-query
\* or mutation callback, the callback rejects with exactly the error of the
\* transport's result when that error is not null, and resolves with the
\* result's data otherwise.
C11_TransportErrorVerbatim ==
    ReachedMethod =>
        LET res == calls[Len(calls)].result IN
        IF res.error # Null
        THEN outcome = [status |-> "rejected", error |-> res.error]
        ELSE outcome = [status |-> "resolved", data |-> res.data]

C11_Witness ==
    /\ ReachedMethod
    /\ result.op = "infiniteQueryOptions"
    /\ procedure.pathParams # <<>>
    /\ outcome = [status |-> "rejected", error |-> Obj([status |-> Num(500)])]

\* the segments of proc's route before the method that are null or missing
\* on its client
Unresolved(proc) ==
    {i \in 1 .. (Len(proc.paths) - 1) :
        proc.client.kind[proc.paths[i]] \in {"null", "undefined"}}

\* C12: whenever a fetch/mutate callback ran on a route one of whose
\* segments is missing or null on the client, no transport method was called
\* and the callback rejected with an "Invalid path" Error: "segment ... does
\* not exist on client" when the first such segment is missing, "cannot
\* access ... on null/undefined" when it is null (whether a further segment
\* or the method was to be read from it).
C12_NavigationFailureDescriptive ==
    (outcome # None /\ procedure # None /\ Unresolved(procedure) # {}) =>
        LET i == CHOOSE j \in Unresolved(procedure) :
                     \A k \in Unresolved(procedure) : j <= k
            segment == procedure.paths[i]
        IN  /\ ~ReachedMethod
            /\ outcome.status = "rejected"
            /\ outcome.error.t = "Error"
            /\ IF procedure.client.kind[segment] = "undefined"
               THEN outcome.error.message =
                        "Invalid path: segment '" \o segment \o "' does not exist on client"
               ELSE outcome.error.message =
                        "Invalid path: cannot access '" \o procedure.paths[i + 1]
                            \o "' on null/undefined"

\* C13: the query of the transport call is the caller's own input: for
\* queryOptions exactly the input the caller passed; for infiniteQueryOptions
\* the caller's input plus the cursor field (the page param) and the
\* direction field (the caller's own, if any); no value of a path param
\* merged into the key is in it.
C13_QueryIsOriginalInput ==
    ( /\ ReachedMethod
      /\ result.op \in {"queryOptions", "infiniteQueryOptions"}
      /\ Routed(procedure) ) =>
        LET query == Prop(calls[Len(calls)].arg, "query") IN
        IF result.op = "queryOptions"
        THEN query = result.input
        ELSE /\ isObject(query)
             /\ DOMAIN query.f = DOMAIN OwnProps(result.input) \cup {"cursor", "direction"}
             /\ \A k \in DOMAIN OwnProps(result.input) \ {"cursor", "direction"} :
                    query.f[k] = OwnProps(result.input)[k]
             /\ query.f.cursor = fetchArgs.context.pageParam
             /\ query.f.direction = Prop(result.input, "direction")

\* no key named __proto__, constructor or prototype at any level of v
RECURSIVE Clean(_)
Clean(v) ==
    CASE v.t = "object" -> /\ DOMAIN v.f \cap DANGEROUS_KEYS = {}
                           /\ \A k \in DOMAIN v.f : Clean(v.f[k])
      [] v.t = "array"  -> \A i \in DOMAIN v.e : Clean(v.e[i])
      [] OTHER          -> TRUE

\* the caller's input has a dangerous key
DangerousInput == result # None /\ HasQueryKey /\ ~Clean(result.input)

\* C14: when the caller's input has keys named __proto__, constructor or
\* prototype, the queryKey has none of them, the input the fetch callback
\* holds is still the caller's, and the query of the transport call carries
\* the caller's input unsanitized.
C14_SanitizationOnlyInKey ==
    DangerousInput =>
        /\ \A i \in 2 .. Len(KeyOf(result)) :
               "input" \in DOMAIN KeyOf(result)[i] => Clean(KeyOf(result)[i].input)
        /\ result.op \in {"queryOptions", "infiniteQueryOptions"}
           => result.value.queryFn.fetch.input = result.input
        /\ ReachedMethod =>
               LET query == Prop(calls[Len(calls)].arg, "query") IN
               /\ result.op = "queryOptions" => query = result.input
               /\ \A k \in DOMAIN result.input.f \cap DANGEROUS_KEYS :
                      Prop(query, k) = result.input.f[k]

C14_Witness ==
    /\ DangerousInput
    /\ ReachedMethod
    /\ result.op = "queryOptions"
    /\ procedure.pathParams # <<>>
    /\ "safe" \in DOMAIN result.value.queryKey[2].input.f
    /\ "__proto__" \notin DOMAIN result.value.queryKey[2].input.f
    /\ "__proto__" \in DOMAIN Prop(calls[Len(calls)].arg, "query").f

\* s is v with the dangerous keys of every object left out and everything
\* else kept: same kind of value, same other keys, same array length, the
\* same primitives
RECURSIVE Preserved(_, _)
Preserved(v, s) ==
    CASE v.t = "object" -> /\ s.t = "object"
                           /\ DOMAIN s.f = (DOMAIN v.f) \ DANGEROUS_KEYS
                           /\ \A k \in DOMAIN s.f : Preserved(v.f[k], s.f[k])
      [] v.t = "array"  -> /\ s.t = "array"
                           /\ Len(s.e) = Len(v.e)
                           /\ \A i \in DOMAIN v.e : Preserved(v.e[i], s.e[i])
      [] OTHER          -> s = v

\* sanitizeInput was called
Sanitized == result # None /\ result.op = "sanitizeInput"

\* C15: sanitizeInput returns its input with every key named __proto__,
\* constructor or prototype removed at every level, inside arrays too, and
\* every other key and value kept; primitives and null come back unchanged;
\* {__proto__: {polluted}, safe: 1} gives {safe: 1}.
C15_SanitizerContract ==
    Sanitized =>
        /\ Preserved(result.input, result.value)
        /\ Clean(result.value)
        /\ result.input.t \notin {"object", "array"} => result.value = result.input
        /\ result.input = Obj([__proto__ |-> Obj([polluted |-> Str("1")]), safe |-> Num(1)])
           => result.value = Obj([safe |-> Num(1)])

C15_Witness ==
    /\ Sanitized
    /\ result.input = Arr(<<Obj([prototype |-> Str("p"), id |-> Str("1")])>>)
    /\ result.value = Arr(<<Obj([id |-> Str("1")])>>)

\* C16: sanitizing a sanitized value gives the same value, and the key built
\* from a sanitized input is the key built from the input itself, for every
\* path and type.
C16_SanitizerIdempotent ==
    Sanitized =>
        /\ sanitizeInput(result.value) = result.value
        /\ \A path \in KeyPaths, type \in KeyTypes :
               getQueryKey(path, result.value, type) = getQueryKey(path, result.input, type)

C16_Witness ==
    /\ Sanitized
    /\ result.input = Obj([__proto__ |-> Str("p"), constructor |-> Str("c"), ok |-> Num(1)])
    /\ result.value = Obj([ok |-> Num(1)])
    /\ sanitizeInput(result.value) = Obj([ok |-> Num(1)])

\* C17: the fetch callback of a query or infinite-query descriptor is handed
\* the cache library's abort signal exactly when the descriptor was built
\* with opts.eden.abortOnUnmount true; with the option false or absent it is
\* handed none, and the transport call gets the same.
C17_AbortSignalOptIn ==
    (outcome # None /\ result.op \in {"queryOptions", "infiniteQueryOptions"}) =>
        LET optedIn == /\ "eden" \in DOMAIN result.opts
                       /\ "abortOnUnmount" \in DOMAIN result.opts.eden
                       /\ result.opts.eden.abortOnUnmount = TRUE
            signal == IF optedIn THEN fetchArgs.context.signal ELSE Undefined
        IN  /\ fetchArgs.context.signal = AbortSignal
            /\ fetchArgs.signal = signal
            /\ ReachedMethod
               => Prop(Prop(calls[Len(calls)].arg, "fetch"), "signal") = signal

C17_Witness ==
    /\ outcome # None /\ result.op = "infiniteQueryOptions"
    /\ "eden" \in DOMAIN result.opts
    /\ result.opts.eden.abortOnUnmount = FALSE
    /\ ReachedMethod
    /\ fetchArgs.signal = Undefined
    /\ Prop(Prop(calls[Len(calls)].arg, "fetch"), "signal") = Undefined

\* the procedure a kept object stands for, by what it was made with
MadeProcedure(k) ==
    [t |-> "procedure", kind |-> k.object.kind, client |-> client,
     paths |-> k.made.paths, pathParams |-> k.made.pathParams, calledAt |-> <<>>]

\* C18: every object obtained by a property read has the receiver's
\* segments plus the name and the receiver's path params; every object
\* obtained by a call has the receiver's segments and its path params plus
\* the new one; every kept object still has the segments and path params it
\* was obtained with, whatever was navigated from it or beside it since; and
\* the keys and callbacks of a kept procedure use its own segments and path
\* params.
C18_NavigationImmutable ==
    /\ \A i \in DOMAIN handles :
           LET k == handles[i] IN
           /\ heap[k.object.paths] = k.made.paths
           /\ heap[k.object.pathParams] = k.made.pathParams
           /\ i > 1 =>
                  LET r == handles[k.from] IN
                  IF k.step.op = "get"
                  THEN /\ k.made.paths = Append(r.made.paths, k.step.arg)
                       /\ k.made.pathParams = r.made.pathParams
                  ELSE /\ k.made.paths = r.made.paths
                       /\ k.made.pathParams = Append(r.made.pathParams, k.step.arg)
    /\ (handles # <<>> /\ result # None) =>
           LET k == handles[result.of] IN
           IF result.op = "queryKey"
           THEN result.value = queryKey(MadeProcedure(k), Undefined)
           ELSE calls = callEndpoint(MadeProcedure(k), Undefined, result.res).calls

\* two branches from one shared proxy, one by a property read and one by a
\* call, and a procedure of the first branch whose callback ran afterwards
C18_Witness ==
    /\ Len(handles) = 4
    /\ handles[2].step.op = "get" /\ handles[2].object.kind = "proxy"
    /\ handles[3].from = 2 /\ handles[3].step.op = "get"
    /\ handles[3].object.kind = "query"
    /\ handles[3].made.paths = <<"users", "get">>
    /\ handles[4].from = 2 /\ handles[4].step.op = "apply"
    /\ result # None /\ result.op = "fetch" /\ result.of = 3
    /\ ReachedMethod

\* a value built by a procedure helper
Built ==
    /\ result # None
    /\ result.op \in {"queryOptions", "infiniteQueryOptions", "mutationOptions",
                      "queryKey", "queryFilter", "infiniteQueryKey",
                      "infiniteQueryFilter", "mutationKey"}

\* C19: as long as no fetch/mutate callback has been invoked, nothing has
\* been read or called on the transport client and nothing has failed,
\* whatever was navigated and built, also on routes the client does not
\* have; reads, calls and errors only come with the invocation of a callback
\* of a descriptor.
C19_NavigationLazy ==
    /\ outcome = None => calls = <<>>
    /\ (calls # <<>> \/ outcome # None) =>
           /\ result # None
           /\ result.op \in {"queryOptions", "infiniteQueryOptions", "mutationOptions"}
           /\ fetchArgs # None
    /\ (Built /\ outcome = None) => calls = <<>> /\ fetchArgs = None /\ page = 0

\* a descriptor built for a route the client does not have
C19_Witness ==
    /\ Built
    /\ result.op = "queryOptions"
    /\ outcome = None
    /\ calls = <<>>
    /\ procedure.paths = <<"posts", "users", "get">>
    /\ client.kind["posts"] = "undefined"
    /\ result.value.queryKey[1] = procedure.paths

\* C20: a procedure obtained by reading get, options or head is a query
\* procedure with queryOptions, queryKey, queryFilter, infiniteQueryOptions,
\* infiniteQueryKey and infiniteQueryFilter and nothing else; one obtained by
\* reading post, put, patch or delete is a mutation procedure with
\* mutationOptions and mutationKey and nothing else; its path is the proxy's
\* segments followed by the method name, and navigation has ended.
C20_MethodRouting ==
    procedure # None =>
        LET method == procedure.paths[Len(procedure.paths)] IN
        /\ procedure.paths = Append(proxy.paths, method)
        /\ procedure.pathParams = proxy.pathParams
        /\ method \in {"get", "options", "head", "post", "put", "patch", "delete"}
        /\ IF method \in {"get", "options", "head"}
           THEN /\ procedure.kind = "query"
                /\ procedure.helpers =
                       {"queryOptions", "queryKey", "queryFilter",
                        "infiniteQueryOptions", "infiniteQueryKey",
                        "infiniteQueryFilter"}
           ELSE /\ procedure.kind = "mutation"
                /\ procedure.helpers = {"mutationOptions", "mutationKey"}
        /\ result # None => result.op \in procedure.helpers

C20_Witness ==
    /\ procedure # None
    /\ procedure.paths = <<"users", "posts", "patch">>
    /\ procedure.pathParams # <<>>
    /\ procedure.kind = "mutation"
    /\ result # None /\ result.op = "mutationOptions"

\* the transport method was called for queryOptions({ query: Q, headers: H })
CalledWithRouteOptions ==
    /\ ReachedMethod
    /\ result.op = "queryOptions"
    /\ result.input = RouteOptions

Described ==
    /\ result # None
    /\ result.op \in {"queryOptions", "infiniteQueryOptions", "mutationOptions"}

\* the fields of a descriptor the assemblers compute
Computed(op) ==
    CASE op = "mutationOptions" -> {"mutationKey", "mutationFn", "eden"}
      [] op = "infiniteQueryOptions" -> {"queryKey", "queryFn", "initialPageParam", "eden"}
      [] OTHER -> {"queryKey", "queryFn", "eden"}

RECURSIVE Dotted(_)
Dotted(segments) ==
    IF Len(segments) = 1 THEN Head(segments)
    ELSE Head(segments) \o "." \o Dotted(Tail(segments))

\* C24: the eden.path of every descriptor is its path's segments joined by
\* ".", the method name last, whatever the path params, the input and the
\* options; users({id}).get gives "users.get".
C24_ResolvedPath ==
    Described =>
        /\ DOMAIN result.value.eden = {"path"}
        /\ result.value.eden.path = Dotted(procedure.paths)
        /\ procedure.paths = <<"users", "get">> => result.value.eden.path = "users.get"

C24_Witness ==
    /\ Described
    /\ result.op = "queryOptions"
    /\ procedure.paths = <<"users", "get">>
    /\ procedure.pathParams = <<Obj([id |-> Str("1")])>>
    /\ result.input = Limit10
    /\ result.value.eden.path = "users.get"

\* the calls of the transport method made by the last callback invocation
MethodCalls == {i \in DOMAIN calls : calls[i].op = "method"}

\* C25: an invocation of a fetch or mutate callback calls the transport
\* method at most once, a mutate callback with the mutation variables as
\* they are; it resolves only with the data of a transport result without
\* error, rejects with the transport's error when there is one, and rejects
\* with the navigation's error when the method was not reached.
C25_NoSwallowNoRetry ==
    outcome # None =>
        /\ Cardinality(MethodCalls) <= 1
        /\ MethodCalls \subseteq {Len(calls)}
        /\ (result.op = "mutationOptions" /\ ReachedMethod)
           => calls[Len(calls)].arg = fetchArgs.context.variables
        /\ outcome.status \in {"resolved", "rejected"}
        /\ outcome.status = "resolved" =>
               /\ ReachedMethod
               /\ calls[Len(calls)].result.error = Null
               /\ outcome.data = calls[Len(calls)].result.data
        /\ (ReachedMethod /\ calls[Len(calls)].result.error # Null) =>
               outcome = [status |-> "rejected",
                          error |-> calls[Len(calls)].result.error]
        /\ ~ReachedMethod =>
               /\ outcome.status = "rejected"
               /\ outcome.error.t \in {"Error", "TypeError"}

C25_Witness ==
    /\ outcome # None
    /\ result.op = "mutationOptions"
    /\ ReachedMethod
    /\ calls[Len(calls)].arg = Obj([name |-> Str("Jane")])
    /\ outcome.status = "rejected"
    /\ Cardinality(MethodCalls) = 1

\* C26: a route with one path param and no input, and the same segments
\* without path param but with the param given as query input, resolve to
\* different transport calls and so have different query keys and different
\* infinite-query keys; so do a route with path params and the same segments
\* with path params of other values.
C26_KeysUniqueAcrossEndpoints ==
    ( /\ result # None
      /\ result.op \in {"queryKey", "infiniteQueryKey"}
      /\ result.input = Undefined
      /\ Len(procedure.pathParams) = 1 ) =>
        LET res == [data |-> Str("data"), error |-> Null]
            asInput == procedure.pathParams[1]
            other == [procedure EXCEPT !.pathParams = <<>>, !.calledAt = <<>>]
            here == queryFetch([proc |-> procedure, input |-> Undefined],
                               Undefined, Undefined, res).calls
            there == queryFetch([proc |-> other, input |-> asInput],
                                asInput, Undefined, res).calls
            thereKey == IF result.op = "queryKey" THEN queryKey(other, asInput)
                        ELSE infiniteQueryKey(other, asInput)
        IN  /\ here # there => result.value # thereKey
            /\ \A params \in PathParamValues \ {asInput} :
                   LET changed == [procedure EXCEPT !.pathParams = <<params>>] IN
                   result.value # (IF result.op = "queryKey"
                                   THEN queryKey(changed, Undefined)
                                   ELSE infiniteQueryKey(changed, Undefined))

\* the path params the callback applied to the client, in the order applied
Applied == LET made == SelectSeq(calls, LAMBDA c : c.op = "call")
           IN  [k \in DOMAIN made |-> made[k].params]

\* C27: whenever a fetch/mutate callback reaches the transport method, the
\* path params it applied to the client are exactly the path params the proxy
\* recorded, each once and in recording order.
C27_EveryBindingConsumed ==
    ReachedMethod => Applied = procedure.pathParams

\* the segments the callback read off the client, in order
Walked == LET reads == SelectSeq(calls, LAMBDA c : c.op = "get")
          IN  [k \in DOMAIN reads |-> reads[k].segment]

\* the path in the key of a descriptor
KeyPath(r) == IF r.op = "mutationOptions" THEN r.value.mutationKey[1]
              ELSE r.value.queryKey[1]

\* C28: when the fetch/mutate callback of a descriptor has run, the segments
\* it read off the client are the leading segments of the path in the
\* descriptor's key; when it reached the transport method they are that path
\* without its last element, and the method called is that last element.
C28_KeyAndFetchSameRoute ==
    ( /\ outcome # None
      /\ result.op \in {"queryOptions", "infiniteQueryOptions", "mutationOptions"} )
    => LET path == KeyPath(result) IN
       /\ Len(Walked) < Len(path)
       /\ Walked = SubSeq(path, 1, Len(Walked))
       /\ ReachedMethod =>
              /\ Walked = SubSeq(path, 1, Len(path) - 1)
              /\ calls[Len(calls)].name = path[Len(path)]

\* a two-segment route whose callback reached the method
C28_Witness ==
    /\ outcome # None
    /\ result.op \in {"queryOptions", "mutationOptions"}
    /\ ReachedMethod
    /\ Walked = <<"users", "posts">>
    /\ Len(KeyPath(result)) = 3

\* C29: for one procedure and one input other than the skip sentinel, the
\* queryKey of queryOptions is the key queryKey returns, and the queryKey of
\* infiniteQueryOptions is the key infiniteQueryKey returns and the queryKey
\* of the filter infiniteQueryFilter returns, whatever options and filters
\* are passed.
C29_HelpersAgreeWithDescriptors ==
    (result # None /\ result.op # "then" /\ result.input # skipToken) =>
        LET i == result.input IN
        /\ result.op = "queryOptions" => result.value.queryKey = queryKey(procedure, i)
        /\ result.op = "queryKey" =>
               \A o \in QueryOpts : queryOptions(procedure, i, o).queryKey = result.value
        /\ result.op = "infiniteQueryOptions" =>
               /\ result.value.queryKey = infiniteQueryKey(procedure, i)
               /\ \A f \in Filters :
                      result.value.queryKey = infiniteQueryFilter(procedure, i, f).queryKey
        /\ result.op \in {"infiniteQueryKey", "infiniteQueryFilter"} =>
               \A o \in InfiniteOpts :
                   infiniteQueryOptions(procedure, i, o).queryKey = KeyOf(result)

\* infiniteQueryKey called with paging input on a route with a path param
C29_Witness ==
    /\ result # None
    /\ result.op = "infiniteQueryKey"
    /\ procedure.pathParams = <<Obj([id |-> Str("1")])>>
    /\ isObject(result.input)
    /\ "cursor" \in DOMAIN result.input.f
    /\ result.value[2].input = Obj([id |-> Str("1"), limit |-> Num(10)])

\* The cache library's partial match of a value a of a query key against the
\* value b at the same place of a filter key: the same value, or two objects
\* (or two arrays) where every member of b partially matches the member of a
\* of the same name, an absent member counting as undefined.
RECURSIVE PartialMatch(_, _)
PartialMatch(a, b) ==
    \/ a = b
    \/ /\ a.t = b.t
       /\ a.t \in {"object", "array"}
       /\ \A k \in DOMAIN OwnProps(b) :
              IF k \in DOMAIN OwnProps(a)
              THEN PartialMatch(OwnProps(a)[k], OwnProps(b)[k])
              ELSE OwnProps(b)[k] = Undefined

\* a filter key partially matches a query key: element by element, the path
\* of the filter leads the path of the query, and each member of the
\* filter's meta object partially matches the query's
PartialMatchKey(key, filterKey) ==
    /\ Len(filterKey) <= Len(key)
    /\ Len(filterKey[1]) <= Len(key[1])
    /\ filterKey[1] = SubSeq(key[1], 1, Len(filterKey[1]))
    /\ Len(filterKey) = 2 =>
           \A k \in DOMAIN filterKey[2] :
               /\ k \in DOMAIN key[2]
               /\ IF k = "input" THEN PartialMatch(key[2][k], filterKey[2][k])
                  ELSE key[2][k] = filterKey[2][k]

\* C30: for one procedure and one input, the key of the filter queryFilter
\* returns partially matches the queryKey of queryOptions and the queryKey of
\* infiniteQueryOptions for that input, whatever options are passed, also when
\* the input has cursor or direction members.
C30_FilterMatchesItsQueries ==
    (result # None /\ result.op = "queryFilter") =>
        /\ \A o \in QueryOpts :
               PartialMatchKey(queryOptions(procedure, result.input, o).queryKey,
                               result.value.queryKey)
        /\ \A o \in InfiniteOpts :
               PartialMatchKey(infiniteQueryOptions(procedure, result.input, o).queryKey,
                               result.value.queryKey)

====
